---- MODULE Spec2Model ----
(***************************************************************************)
(* The virtual address-space map of kernel/vm/vmmap.c: an ordered list of  *)
(* vmareas (vmm_list) with insert, find_range, lookup, is_range_empty,     *)
(* remove (the four-case splitter), map, destroy, mapping_info and the     *)
(* unimplemented clone, read and write.                                    *)
(***************************************************************************)
EXTENDS Integers, Sequences, FiniteSets, TLC

VARIABLES vmm_list,      \* the map's list of vmareas, in list order
          refcount,      \* mmo_refcount of every memory object (0 = not allocated)
          slab,          \* vmareas currently allocated from vmarea_allocator
          panicked,      \* the kernel faulted on an invalid pointer
          last           \* the last call: its arguments, locals and return value

vars == <<vmm_list, refcount, slab, panicked, last>>

----------------------------------------------------------------------------
(* Bounds of the model *)

USER_PAGE_HIGH == 5          \* pages of the user window, scaled down
WordBits == 4                \* width of uint32_t / int, scaled down
MaxSlab == 3                 \* capacity of vmarea_allocator
MaxObj == 3                  \* anonymous objects anon_create can hand out
MaxRef == 2                  \* cap on the vnode object's reference count
MaxCalls == 3                \* length of the sequences of calls explored
MaxCuts == 4                 \* length of the sequences of vmmap_remove explored
MaxBuf == 5                  \* largest osize given to vmmap_mapping_info
MaxRowLen == 2               \* longest line snprintf reports

UINT_MOD == 2 ^ WordBits

PAGE_SHIFT == 1              \* log2 of the page size, scaled down
PAGE_SIZE == 2 ^ PAGE_SHIFT
ADDR_TO_PN(x) == x \div PAGE_SIZE

----------------------------------------------------------------------------
(* Values *)

ENOSPC == 28
EIO == 5
ENOMEM == 12
VMMAP_DIR_LOHI == 1
VMMAP_DIR_HILO == 2

AnonObjs == 1 .. MaxObj                 \* objects made by anon_create
VnObj == MaxObj + 1                     \* the vnode's memory object
Junk == MaxObj + 2                      \* a pointer value that is no object
Objs == AnonObjs \cup {VnObj}
NULL == 0

ProtFlags == { <<{"PROT_READ"}, {"MAP_SHARED"}>>,
               <<{"PROT_READ", "PROT_WRITE"}, {"MAP_PRIVATE"}>> }

NoVma == [vma_start |-> 0, vma_end |-> 0, vma_off |-> 0, vma_prot |-> {},
          vma_flags |-> {}, vma_vmmap |-> "NULL", vma_obj |-> NULL,
          vma_olink |-> "uninit"]

U32(x) == x % UINT_MOD
ToInt(x) == IF U32(x) >= UINT_MOD \div 2 THEN U32(x) - UINT_MOD ELSE U32(x)

valid_pagenumber(pagenum) == pagenum < USER_PAGE_HIGH

SetMin(S) == CHOOSE x \in S : \A y \in S : x <= y
SetMax(S) == CHOOSE x \in S : \A y \in S : x >= y

----------------------------------------------------------------------------
(* Collaborators: the memory-object layer *)

Live(refs, o) == o \in Objs /\ refs[o] > 0

mmo_ref(refs, o) == [refs EXCEPT ![o] = @ + 1]
mmo_put(refs, o) == [refs EXCEPT ![o] = @ - 1]

FreeAnon(refs) == {o \in AnonObjs : refs[o] = 0}
anon_create(refs) == IF FreeAnon(refs) = {} THEN NULL ELSE SetMin(FreeAnon(refs))

----------------------------------------------------------------------------
(* vmmap_insert *)

InsertAt(list, i, v) == SubSeq(list, 1, i - 1) \o <<v>> \o SubSeq(list, i, Len(list))

\* vmmap_insert that links the new vmarea at the tail whatever the list holds.
vmmap_insert_tail(list, newvma) ==
    Append(list, [newvma EXCEPT !.vma_vmmap = "map"])

vmmap_insert(list, newvma) ==
    LET nv == [newvma EXCEPT !.vma_vmmap = "map"]
        fits(i) == IF i = 1
                   THEN nv.vma_end <= list[1].vma_start
                   ELSE nv.vma_end <= list[i].vma_start
                        /\ nv.vma_start >= list[i - 1].vma_end
        hits == {i \in 1 .. Len(list) : fits(i)}
    IN  IF list = <<>> THEN <<nv>>
        ELSE IF hits # {} THEN InsertAt(list, SetMin(hits), nv)
        ELSE Append(list, nv)

----------------------------------------------------------------------------
(* vmmap_find_range *)

find_range_lohi(list, npages) ==
    LET n == Len(list)
        fits(i) == IF i = 1
                   THEN list[1].vma_start >= npages
                   ELSE U32(list[i].vma_start - list[i - 1].vma_end) >= npages
        hits == {i \in 1 .. n : fits(i)}
    IN  IF list = <<>> THEN 0
        ELSE IF hits # {}
             THEN (IF SetMin(hits) = 1 THEN 0 ELSE ToInt(list[SetMin(hits) - 1].vma_end))
        ELSE IF U32(USER_PAGE_HIGH - list[n].vma_end) >= npages
             THEN ToInt(list[n].vma_end)
        ELSE -1

find_range_hilo(list, npages) ==
    LET n == Len(list)
        fits(i) == IF i = n
                   THEN U32(USER_PAGE_HIGH - list[n].vma_end) >= npages
                   ELSE U32(list[i + 1].vma_start - list[i].vma_end) >= npages
        hits == {i \in 1 .. n : fits(i)}
    IN  IF list = <<>> THEN ToInt(USER_PAGE_HIGH - npages)
        ELSE IF hits # {} THEN ToInt(list[SetMax(hits)].vma_end)
        ELSE IF list[1].vma_start >= npages THEN 0
        ELSE -1

vmmap_find_range(list, npages, dir) ==
    IF dir = VMMAP_DIR_LOHI \/ dir = 0
    THEN find_range_lohi(list, npages)
    ELSE find_range_hilo(list, npages)

----------------------------------------------------------------------------
(* vmmap_lookup, vmmap_is_range_empty *)

\* the position in the list of the vmarea found, NULL when there is none
vmmap_lookup(list, vfn) ==
    LET hits == {i \in 1 .. Len(list) :
                    vfn >= list[i].vma_start /\ vfn < list[i].vma_end}
    IN  IF hits = {} THEN NULL ELSE SetMin(hits)

\* The test with the start compared strictly: a vmarea that starts where the
\* range ends counts as overlapping.
is_range_empty_strict(list, startvfn, npages) ==
    IF \A i \in 1 .. Len(list) :
           \/ list[i].vma_start > U32(startvfn + npages)
           \/ list[i].vma_end <= startvfn
    THEN 1 ELSE 0

vmmap_is_range_empty(list, startvfn, npages) ==
    IF \A i \in 1 .. Len(list) :
           \/ list[i].vma_start >= U32(startvfn + npages)
           \/ list[i].vma_end <= startvfn
    THEN 1 ELSE 0

----------------------------------------------------------------------------
(* vmmap_remove *)

\* Case 1: the range lies strictly inside the vmarea.
remove_case1(vma, lopage, hipage) ==
    vma.vma_start < lopage /\ vma.vma_end > hipage

\* The vmarea vma_new that case 1 links before vma, and what it leaves of vma.
remove_split_new(vma, lopage) ==
    [vma EXCEPT !.vma_end = lopage, !.vma_olink = "init"]

\* The same with vma_off left as it was.
remove_split_old_keepoff(vma, hipage) ==
    [vma EXCEPT !.vma_start = hipage]

remove_split_old(vma, hipage) ==
    [vma EXCEPT !.vma_off = U32(hipage - vma.vma_start + vma.vma_off),
                !.vma_start = hipage]

\* Case 2: chop off the right part.
remove_case2(vma, lopage, hipage) ==
    IF vma.vma_start < lopage /\ vma.vma_end <= hipage
    THEN [vma EXCEPT !.vma_end = lopage]
    ELSE vma

\* Case 3: chop off the left part.
remove_case3(vma, lopage, hipage) ==
    IF vma.vma_start >= lopage /\ vma.vma_end > hipage
    THEN [vma EXCEPT !.vma_off = U32(hipage - vma.vma_start + vma.vma_off),
                     !.vma_start = hipage]
    ELSE vma

\* Case 4 with the end compared strictly: a vmarea ending where the range ends
\* is not taken for contained.
remove_case4_strict(vma, lopage, hipage) ==
    vma.vma_start >= lopage /\ vma.vma_end < hipage

\* Case 4: the range contains the vmarea.
remove_case4(vma, lopage, hipage) ==
    vma.vma_start >= lopage /\ vma.vma_end <= hipage

\* One pass of the list_iterate loop over the vmareas not yet visited (todo);
\* done holds what the visited ones left in the list.  The loop keeps the next
\* link before it runs the body, so it visits the vmareas of the list as it was
\* at the call, whatever the body links before or unlinks at the current one.
\* avail is the number of vmareas vmarea_alloc can still hand out, olink_ok
\* whether unlinking an uninitialised vma_olink happens to be harmless.
RECURSIVE remove_iter(_, _, _, _, _, _, _, _)
remove_iter(done, todo, lopage, hipage, refs, nslab, avail, olink_ok) ==
    IF todo = <<>>
    THEN [list |-> done, refs |-> refs, slab |-> nslab, ret |-> 0, panic |-> FALSE]
    ELSE
    LET vma == Head(todo)
        rest == Tail(todo)
        case1 == remove_case1(vma, lopage, hipage)
        v1 == IF case1 THEN remove_split_old(vma, hipage) ELSE vma
        v2 == remove_case2(v1, lopage, hipage)
        v3 == remove_case3(v2, lopage, hipage)
        case4 == remove_case4(v3, lopage, hipage)
        refs1 == IF case1 THEN mmo_ref(refs, vma.vma_obj) ELSE refs
        slab1 == IF case1 THEN nslab + 1 ELSE nslab
        avail1 == IF case1 THEN avail - 1 ELSE avail
        kept == IF case1 THEN done \o <<remove_split_new(vma, lopage)>> ELSE done
    IN  IF case1 /\ avail = 0
        THEN [list |-> done \o todo, refs |-> refs, slab |-> nslab,
              ret |-> -ENOSPC, panic |-> FALSE]
        ELSE IF (case1 \/ case4) /\ ~Live(refs, vma.vma_obj)
        THEN [list |-> done \o todo, refs |-> refs, slab |-> nslab,
              ret |-> 0, panic |-> TRUE]
        ELSE IF case4 /\ v3.vma_olink = "uninit" /\ ~olink_ok
        THEN [list |-> kept \o rest, refs |-> mmo_put(refs1, v3.vma_obj),
              slab |-> slab1, ret |-> 0, panic |-> TRUE]
        ELSE IF case4
        THEN remove_iter(kept, rest, lopage, hipage,
                         mmo_put(refs1, v3.vma_obj), slab1 - 1, avail1 + 1, olink_ok)
        ELSE remove_iter(kept \o <<v3>>, rest, lopage, hipage,
                         refs1, slab1, avail1, olink_ok)

vmmap_remove(list, lopage, npages, refs, nslab, avail, olink_ok) ==
    remove_iter(<<>>, list, lopage, U32(lopage + npages), refs, nslab, avail, olink_ok)

----------------------------------------------------------------------------
(* vmmap_clone *)

\* NOT_YET_IMPLEMENTED, return NULL: no map is made (child is the list of the
\* map returned, empty when there is none) and the given map is left as it is.
vmmap_clone(list, refs) ==
    [ret |-> NULL, child |-> <<>>, list |-> list, refs |-> refs]

----------------------------------------------------------------------------
(* vmmap_read, vmmap_write *)

\* NOT_YET_IMPLEMENTED, return 0: looked holds the page frames asked of the
\* memory objects, as [obj, index, forwrite], dirtied those marked dirty, buf
\* the caller's buffer after the call.  Both are stubs: no frame is asked for,
\* none is dirtied, no byte is copied.
vmmap_read(list, vaddr, buf, count) ==
    [ret |-> 0, looked |-> {}, dirtied |-> {}, buf |-> buf]

vmmap_write(list, vaddr, buf, count) ==
    [ret |-> 0, looked |-> {}, dirtied |-> {}, buf |-> buf]

----------------------------------------------------------------------------
(* vmmap_mapping_info *)

\* The offsets, from the start of the caller's buffer, that snprintf(buf, size,
\* ...) writes when buf is at offset buf and the line is len characters long:
\* the characters that fit in size - 1 and the terminating NUL.
snprintf(buf, size, len) ==
    buf .. buf + (IF len < size THEN len ELSE size - 1)

\* The list_iterate loop from the vmarea at position k on: lens[k] is the
\* length snprintf reports for that vmarea's line, len the length reported by
\* the snprintf before.
RECURSIVE info_iter(_, _, _, _, _, _, _)
info_iter(k, n, size, buf, len, lens, written) ==
    IF k > n
    THEN [size |-> size, buf |-> buf, written |-> written]
    ELSE IF 0 >= size - len
    THEN [size |-> size - len, buf |-> buf + len, written |-> written]
    ELSE info_iter(k + 1, n, size - len, buf + len, lens[k], lens,
                   written \cup snprintf(buf + len, size - len, lens[k]))

\* head is the length snprintf reports for the header line.
vmmap_mapping_info(list, osize, head, lens) ==
    LET r == info_iter(1, Len(list), osize, 0, head, lens, snprintf(0, osize, head))
    IN  IF r.size <= 0
        THEN [ret |-> 0, written |-> r.written \cup {r.buf + osize - 1}]
        ELSE [ret |-> osize - r.size, written |-> r.written]

----------------------------------------------------------------------------
(* vmmap_destroy *)

\* The list_iterate loop: put the vmarea's object, unlink the vmarea, free it.
RECURSIVE destroy_iter(_, _, _)
destroy_iter(todo, refs, nslab) ==
    IF todo = <<>>
    THEN [list |-> <<>>, refs |-> refs, slab |-> nslab, panic |-> FALSE]
    ELSE IF ~Live(refs, Head(todo).vma_obj)
    THEN [list |-> todo, refs |-> refs, slab |-> nslab, panic |-> TRUE]
    ELSE destroy_iter(Tail(todo), mmo_put(refs, Head(todo).vma_obj), nslab - 1)

\* The same loop without the put: the vmareas are unlinked and freed, their
\* objects keep the references.
vmmap_destroy_noput(list, refs, nslab) ==
    [list |-> <<>>, refs |-> refs, slab |-> nslab - Len(list), panic |-> FALSE]

vmmap_destroy(list, refs, nslab) == destroy_iter(list, refs, nslab)

----------------------------------------------------------------------------
(* The maps a call starts from *)

Ordered(list) ==
    \A i \in 1 .. Len(list) : \A j \in 1 .. Len(list) :
        i < j => list[i].vma_end <= list[j].vma_start

InBounds(list) ==
    \A i \in 1 .. Len(list) :
        list[i].vma_start < list[i].vma_end /\ list[i].vma_end <= USER_PAGE_HIGH

\* A vmarea as a caller of vmmap_insert builds it (first) and as vmmap_map
\* builds it (second).
Kinds == { [off |-> 1, prot |-> {"PROT_READ"}, flags |-> {"MAP_SHARED"},
            olink |-> "init"],
           [off |-> 0, prot |-> {"PROT_READ", "PROT_WRITE"}, flags |-> {"MAP_PRIVATE"},
            olink |-> "uninit"] }

Intervals == {iv \in (0 .. USER_PAGE_HIGH) \X (0 .. USER_PAGE_HIGH) : iv[1] < iv[2]}

Layouts == {l \in UNION {[1 .. n -> Intervals] : n \in 0 .. MaxSlab} :
               /\ Len(l) <= MaxObj
               /\ \A i \in 1 .. Len(l) - 1 : l[i][2] <= l[i + 1][1]}

\* Maps as calls of vmmap_insert and vmmap_map on free ranges build them: the
\* vmareas are in address order, disjoint and inside the user window, and the
\* i-th one holds the only reference to the i-th anonymous object.
BuiltMaps == UNION { { [i \in 1 .. Len(l) |->
                          [vma_start |-> l[i][1], vma_end |-> l[i][2],
                           vma_off |-> k[i].off, vma_prot |-> k[i].prot,
                           vma_flags |-> k[i].flags, vma_vmmap |-> "map",
                           vma_obj |-> i, vma_olink |-> k[i].olink]] :
                       k \in [1 .. Len(l) -> Kinds] } : l \in Layouts }

Holders(list, o) == {i \in 1 .. Len(list) : list[i].vma_obj = o}

Built(list) ==
    [list |-> list,
     refs |-> [o \in Objs |-> IF o = VnObj THEN 1
                              ELSE Cardinality(Holders(list, o))],
     slab |-> Len(list)]

Ranges == {rg \in (0 .. USER_PAGE_HIGH) \X (1 .. USER_PAGE_HIGH) :
              rg[1] + rg[2] <= USER_PAGE_HIGH}

\* What one earlier vmmap_remove, with the slab not exhausted by others, made
\* of such a map.
Removed(list, rg) ==
    LET b == Built(list)
        r == vmmap_remove(list, rg[1], rg[2], b.refs, b.slab, MaxSlab - b.slab, TRUE)
    IN  [list |-> r.list, refs |-> r.refs, slab |-> r.slab]

InitStates == {Built(m) : m \in BuiltMaps}
                  \cup {Removed(m, rg) : m \in BuiltMaps, rg \in Ranges}

----------------------------------------------------------------------------
(* The calls *)

NoCall == [op |-> "none", lopage |-> 0, npages |-> 0, dir |-> 0, file |-> FALSE,
           prot |-> {}, flags |-> {}, off |-> 0, ret |-> 0,
           vma |-> NoVma, base |-> NULL,
           pre |-> <<>>, pre_refs |-> <<>>, pre_slab |-> 0, seq |-> 0,
           child |-> <<>>,
           vaddr |-> 0, count |-> 0, data |-> <<>>, buf |-> <<>>,
           looked |-> {}, dirtied |-> {}, osize |-> 0, written |-> {}]

Init ==
    /\ \E st \in InitStates :
           /\ vmm_list = st.list
           /\ refcount = st.refs
           /\ slab = st.slab
    /\ panicked = FALSE
    /\ last = NoCall

\* Each behaviour is one call on a map of InitStates.
Idle == last.op = "none"

Call(op, lopage, npages) ==
    [NoCall EXCEPT !.op = op, !.lopage = lopage, !.npages = npages,
                   !.pre = vmm_list, !.pre_refs = refcount, !.pre_slab = slab]

\* A caller builds a vmarea over a fresh anonymous object, on an interval inside
\* the user window that no vmarea of the map overlaps, and calls vmmap_insert.
Insert(start, end, off, pf) ==
    LET o == anon_create(refcount)
        newvma == [vma_start |-> start, vma_end |-> end, vma_off |-> off,
                   vma_prot |-> pf[1], vma_flags |-> pf[2], vma_vmmap |-> "NULL",
                   vma_obj |-> o, vma_olink |-> "init"]
    IN  /\ Idle
        /\ start < end /\ end <= USER_PAGE_HIGH
        /\ vmmap_is_range_empty(vmm_list, start, end - start) = 1
        /\ slab < MaxSlab
        /\ o # NULL
        /\ vmm_list' = vmmap_insert(vmm_list, newvma)
        /\ refcount' = [refcount EXCEPT ![o] = 1]
        /\ slab' = slab + 1
        /\ UNCHANGED panicked
        /\ last' = [Call("insert", start, end - start) EXCEPT
                        !.vma = [newvma EXCEPT !.vma_vmmap = "map"], !.base = o]

Remove(lopage, npages, avail, olink_ok) ==
    LET r == vmmap_remove(vmm_list, lopage, npages, refcount, slab, avail, olink_ok)
    IN  /\ Idle
        /\ npages >= 1 /\ lopage + npages <= USER_PAGE_HIGH
        /\ avail \in {0, MaxSlab - slab}
        /\ vmm_list' = r.list
        /\ refcount' = r.refs
        /\ slab' = r.slab
        /\ panicked' = r.panic
        /\ last' = [Call("remove", lopage, npages) EXCEPT !.ret = r.ret]

\* vmmap_remove over exactly the interval that the vmmap_insert before it
\* linked; last keeps the map as it was before the insert.
RemoveInserted(avail, olink_ok) ==
    LET r == vmmap_remove(vmm_list, last.lopage, last.npages, refcount, slab,
                          avail, olink_ok)
    IN  /\ last.op = "insert" /\ ~panicked
        /\ avail \in {0, MaxSlab - slab}
        /\ vmm_list' = r.list
        /\ refcount' = r.refs
        /\ slab' = r.slab
        /\ panicked' = r.panic
        /\ last' = [last EXCEPT !.op = "insert_remove", !.ret = r.ret]

FindRange(npages, dir) ==
    /\ Idle
    /\ last' = [Call("find_range", 0, npages) EXCEPT
                    !.dir = dir, !.ret = vmmap_find_range(vmm_list, npages, dir)]
    /\ UNCHANGED <<vmm_list, refcount, slab, panicked>>

Lookup(vfn) ==
    /\ Idle
    /\ valid_pagenumber(vfn)
    /\ last' = [Call("lookup", vfn, 0) EXCEPT !.ret = vmmap_lookup(vmm_list, vfn)]
    /\ UNCHANGED <<vmm_list, refcount, slab, panicked>>

IsRangeEmpty(startvfn, npages) ==
    /\ Idle
    /\ startvfn + npages <= USER_PAGE_HIGH
    /\ last' = [Call("is_range_empty", startvfn, npages) EXCEPT
                    !.ret = vmmap_is_range_empty(vmm_list, startvfn, npages)]
    /\ UNCHANGED <<vmm_list, refcount, slab, panicked>>

\* vmmap_destroy empties the list and frees the map; what is left stands for
\* the map the next vmmap_create returns.
Destroy ==
    LET r == vmmap_destroy(vmm_list, refcount, slab)
    IN  /\ Idle
        /\ vmm_list' = r.list
        /\ refcount' = r.refs
        /\ slab' = r.slab
        /\ panicked' = r.panic
        /\ last' = Call("destroy", 0, 0)

Clone ==
    LET r == vmmap_clone(vmm_list, refcount)
    IN  /\ Idle
        /\ vmm_list' = r.list
        /\ refcount' = r.refs
        /\ UNCHANGED <<slab, panicked>>
        /\ last' = [Call("clone", 0, 0) EXCEPT !.ret = r.ret, !.child = r.child]

\* the pages the bytes [vaddr, vaddr + count) lie on
PagesOf(vaddr, count) == ADDR_TO_PN(vaddr) .. ADDR_TO_PN(vaddr + count - 1)

\* The caller's bytes ("new") are to be written over bytes it has not seen.
Write(vaddr, count) ==
    LET data == [k \in 1 .. count |-> "new"]
        r == vmmap_write(vmm_list, vaddr, data, count)
    IN  /\ Idle
        /\ count >= 1 /\ vaddr + count <= USER_PAGE_HIGH * PAGE_SIZE
        /\ \A vfn \in PagesOf(vaddr, count) : vmmap_lookup(vmm_list, vfn) # NULL
        /\ UNCHANGED <<vmm_list, refcount, slab, panicked>>
        /\ last' = [Call("write", ADDR_TO_PN(vaddr), 0) EXCEPT
                        !.vaddr = vaddr, !.count = count, !.data = data,
                        !.ret = r.ret, !.looked = r.looked, !.dirtied = r.dirtied]

\* The read of the interval just written, into a buffer that holds other
\* bytes ("old").
ReadBack ==
    LET r == vmmap_read(vmm_list, last.vaddr, [k \in 1 .. last.count |-> "old"],
                        last.count)
    IN  /\ last.op = "write" /\ last.ret = 0 /\ ~panicked
        /\ UNCHANGED <<vmm_list, refcount, slab, panicked>>
        /\ last' = [last EXCEPT !.op = "read", !.ret = r.ret, !.buf = r.buf]

MappingInfo(osize, head, lens) ==
    LET r == vmmap_mapping_info(vmm_list, osize, head, lens)
    IN  /\ Idle
        /\ 0 < osize
        /\ UNCHANGED <<vmm_list, refcount, slab, panicked>>
        /\ last' = [Call("mapping_info", 0, 0) EXCEPT
                        !.osize = osize, !.ret = r.ret, !.written = r.written]

----------------------------------------------------------------------------
(* vmmap_map *)

\* The same branch with the removal done at once, before the memory object is
\* obtained.
map_hint_eager(list, lopage, npages, refs, nslab, avail, olink_ok) ==
    LET r == vmmap_remove(list, lopage, npages, refs, nslab, avail, olink_ok)
    IN  [list |-> r.list, refs |-> r.refs, slab |-> r.slab, ret |-> r.ret,
         panic |-> r.panic, remove |-> 0]

\* The branch taken for a caller-chosen lopage: the removal of what the range
\* overlaps is only noted (remove = 1) and left for the end of the call.
map_hint(list, lopage, npages, refs, nslab, avail, olink_ok) ==
    [list |-> list, refs |-> refs, slab |-> nslab, ret |-> 0, panic |-> FALSE,
     remove |-> 1]

\* a: the arguments [file, lopage, npages, prot, flags, off, dir].
\* e: what the environment does during the call: fail names the collaborator
\* that fails ("none" when all succeed), garbage is the value the fresh
\* vmarea's vma_obj happens to hold, avail and olink_ok are as in vmmap_remove.
vmmap_map(list, refs, nslab, a, e) ==
    LET out(l, r, n, ret, pan, vma, base) ==
            [list |-> l, refs |-> r, slab |-> n, ret |-> ret, panic |-> pan,
             vma |-> vma, base |-> base]
        slab1 == nslab + 1
        found == vmmap_find_range(list, a.npages, a.dir)
        lopage == IF a.lopage = 0 THEN U32(found) ELSE a.lopage
        h == IF a.lopage = 0
             THEN [list |-> list, refs |-> refs, slab |-> slab1, ret |-> 0,
                   panic |-> FALSE, remove |-> 0]
             ELSE map_hint(list, lopage, a.npages, refs, slab1, e.avail, e.olink_ok)
        vma0 == [vma_start |-> lopage, vma_end |-> U32(lopage + a.npages),
                 vma_off |-> 0, vma_prot |-> a.prot, vma_flags |-> a.flags,
                 vma_vmmap |-> "NULL", vma_obj |-> e.garbage,
                 vma_olink |-> "uninit"]
        mmobj_anon == anon_create(h.refs)
        refs_anon == [h.refs EXCEPT ![mmobj_anon] = 1]
        refs_file == mmo_ref(h.refs, VnObj)
        vma_result == IF a.file THEN vma0 ELSE [vma0 EXCEPT !.vma_obj = mmobj_anon]
        base == IF a.file THEN VnObj ELSE mmobj_anon
        refs1 == IF a.file THEN refs_file ELSE refs_anon
        rm == IF h.remove = 1
              THEN vmmap_remove(h.list, lopage, a.npages, refs1, h.slab, e.avail,
                                e.olink_ok)
              ELSE [list |-> h.list, refs |-> refs1, slab |-> h.slab, ret |-> 0,
                    panic |-> FALSE]
    IN  IF e.fail = "vmarea_alloc"
        THEN out(list, refs, nslab, -ENOSPC, FALSE, NoVma, NULL)
        ELSE IF a.lopage = 0 /\ found < 0
        THEN out(list, refs, slab1, -1, found # -1, NoVma, NULL)
        ELSE IF h.panic
        THEN out(h.list, h.refs, h.slab, 0, TRUE, vma0, NULL)
        ELSE IF ~a.file /\ e.fail = "anon_create"
        THEN out(h.list, h.refs, h.slab, -ENOSPC, FALSE, vma0, NULL)
        ELSE IF ~a.file /\ e.fail = "lookuppage"
        THEN out(h.list, refs_anon, h.slab, -ENOMEM, FALSE, vma0, mmobj_anon)
        ELSE IF a.file /\ e.fail = "mmap"
        THEN out(h.list, h.refs, h.slab, -EIO, FALSE, vma0, NULL)
        ELSE IF rm.panic
        THEN out(rm.list, rm.refs, rm.slab, 0, TRUE, vma_result, base)
        ELSE out(vmmap_insert(rm.list, vma_result), rm.refs, rm.slab, 0, FALSE,
                 [vma_result EXCEPT !.vma_vmmap = "map"], base)

Fails == {"none", "vmarea_alloc", "anon_create", "lookuppage", "mmap"}

Map(a, e) ==
    LET r == vmmap_map(vmm_list, refcount, slab, a, e)
    IN  /\ Idle
        /\ a.npages >= 1 /\ a.lopage + a.npages <= USER_PAGE_HIGH
        \* what the environment can do in this state
        /\ (slab = MaxSlab) => e.fail = "vmarea_alloc"
        /\ e.fail \in {"anon_create", "lookuppage"} => ~a.file
        /\ e.fail = "mmap" => a.file
        /\ (~a.file /\ FreeAnon(refcount) = {}) => e.fail \in {"vmarea_alloc", "anon_create"}
        /\ (a.file /\ refcount[VnObj] >= MaxRef) => e.fail \in {"vmarea_alloc", "mmap"}
        /\ e.avail \in {0, MaxSlab - slab - 1}
        /\ vmm_list' = r.list
        /\ refcount' = r.refs
        /\ slab' = r.slab
        /\ panicked' = r.panic
        /\ last' = [Call("map", a.lopage, a.npages) EXCEPT
                        !.dir = a.dir, !.file = a.file, !.prot = a.prot,
                        !.flags = a.flags, !.off = a.off, !.ret = r.ret,
                        !.vma = r.vma, !.base = r.base]

----------------------------------------------------------------------------
(* The specification: one call on a map the program can hold *)
(* Init stands for vmmap_create followed by the calls that built the map. *)

Pages == 0 .. USER_PAGE_HIGH
Dirs == {VMMAP_DIR_LOHI, VMMAP_DIR_HILO}

\* The byte offsets a caller passes: page aligned (KASSERT(PAGE_ALIGNED(off))).
Offsets == {0, PAGE_SIZE}

\* The arguments of vmmap_map; dir is consulted only when lopage = 0.
MapArgs == UNION {
    {[file |-> f, lopage |-> lo, npages |-> n, prot |-> pf[1],
      flags |-> pf[2], off |-> off, dir |-> d] :
         f \in BOOLEAN, n \in 1 .. USER_PAGE_HIGH, pf \in ProtFlags,
         off \in Offsets,
         d \in IF lo = 0 THEN Dirs ELSE {VMMAP_DIR_LOHI}} :
    lo \in 0 .. USER_PAGE_HIGH - 1}

\* What the environment can do during vmmap_map(a): the choices that the call
\* never consults are fixed.
MapEnv(a) == {[fail |-> fl, garbage |-> g, avail |-> av, olink_ok |-> ok] :
              fl \in Fails,
              g \in IF a.file THEN Objs \cup {Junk} ELSE {Junk},
              av \in IF a.lopage = 0 THEN {0} ELSE 0 .. MaxSlab,
              ok \in IF a.lopage = 0 THEN {TRUE} ELSE BOOLEAN}

DoInsert ==
    /\ Idle
    /\ \E start \in Pages, end \in Pages, off \in {0, 1}, pf \in ProtFlags :
           Insert(start, end, off, pf)
DoRemove ==
    /\ Idle
    /\ \E lopage \in Pages, npages \in Pages, avail \in 0 .. MaxSlab,
          olink_ok \in BOOLEAN :
           Remove(lopage, npages, avail, olink_ok)
DoMap ==
    /\ Idle
    /\ \E a \in MapArgs : \E e \in MapEnv(a) : Map(a, e)
DoDestroy ==
    /\ Idle
    /\ Destroy
DoClone ==
    /\ Idle
    /\ Clone
DoWrite ==
    /\ Idle
    /\ \E vaddr \in 0 .. USER_PAGE_HIGH * PAGE_SIZE - 1, count \in 1 .. PAGE_SIZE + 1 :
           Write(vaddr, count)
DoReadBack ==
    /\ last.op = "write"
    /\ ReadBack
DoRemoveInserted ==
    /\ last.op = "insert"
    /\ \E avail \in 0 .. MaxSlab, olink_ok \in BOOLEAN : RemoveInserted(avail, olink_ok)
DoMappingInfo ==
    /\ Idle
    /\ \E osize \in 1 .. MaxBuf, head \in 1 .. MaxRowLen,
          lens \in [1 .. Len(vmm_list) -> 1 .. MaxRowLen] :
           MappingInfo(osize, head, lens)
DoFindRange ==
    /\ Idle
    /\ \E npages \in 1 .. USER_PAGE_HIGH + 2,
          dir \in {0, VMMAP_DIR_LOHI, VMMAP_DIR_HILO} :
           FindRange(npages, dir)
DoLookup ==
    /\ Idle
    /\ \E vfn \in Pages : Lookup(vfn)
DoIsRangeEmpty ==
    /\ Idle
    /\ \E startvfn \in Pages, npages \in Pages : IsRangeEmpty(startvfn, npages)

Next == DoInsert \/ DoRemoveInserted \/ DoRemove \/ DoMap \/ DoDestroy \/ DoClone
            \/ DoWrite \/ DoReadBack \/ DoMappingInfo \/ DoFindRange \/ DoLookup
            \/ DoIsRangeEmpty

Spec == Init /\ [][Next]_vars

----------------------------------------------------------------------------
(* Sequences of successful calls on a map that vmmap_create made empty; last *)
(* keeps only the name of the latest call and the number of calls made.     *)

SeqInit ==
    /\ vmm_list = <<>>
    /\ refcount = [o \in Objs |-> IF o = VnObj THEN 1 ELSE 0]
    /\ slab = 0
    /\ panicked = FALSE
    /\ last = NoCall

SeqCall(op) == [NoCall EXCEPT !.op = op, !.seq = last.seq + 1]
SeqReady == ~panicked /\ last.seq < MaxCalls

\* vmmap_map(map, NULL, ...) returning 0
SeqMap(a, e) ==
    LET r == vmmap_map(vmm_list, refcount, slab, a, e)
    IN  /\ SeqReady
        /\ a.npages >= 1 /\ a.lopage + a.npages <= USER_PAGE_HIGH
        /\ ~a.file /\ e.fail = "none"
        /\ slab < MaxSlab /\ FreeAnon(refcount) # {}
        /\ e.avail \in {0, MaxSlab - slab - 1}
        /\ r.ret = 0
        /\ vmm_list' = r.list
        /\ refcount' = r.refs
        /\ slab' = r.slab
        /\ panicked' = r.panic
        /\ last' = SeqCall("map")

\* vmmap_remove returning 0
SeqRemove(lopage, npages, avail, olink_ok) ==
    LET r == vmmap_remove(vmm_list, lopage, npages, refcount, slab, avail, olink_ok)
    IN  /\ SeqReady
        /\ npages >= 1 /\ lopage + npages <= USER_PAGE_HIGH
        /\ avail \in {0, MaxSlab - slab}
        /\ r.ret = 0
        /\ vmm_list' = r.list
        /\ refcount' = r.refs
        /\ slab' = r.slab
        /\ panicked' = r.panic
        /\ last' = SeqCall("remove")

\* vmmap_destroy, then vmmap_create
SeqDestroy ==
    LET r == vmmap_destroy(vmm_list, refcount, slab)
    IN  /\ SeqReady
        /\ vmm_list' = r.list
        /\ refcount' = r.refs
        /\ slab' = r.slab
        /\ panicked' = r.panic
        /\ last' = SeqCall("destroy")

DoSeqMap ==
    /\ SeqReady
    /\ \E a \in MapArgs :
           /\ ~a.file
           /\ \E avail \in 0 .. MaxSlab, olink_ok \in BOOLEAN :
                  SeqMap(a, [fail |-> "none", garbage |-> Junk, avail |-> avail,
                             olink_ok |-> olink_ok])
DoSeqRemove ==
    /\ SeqReady
    /\ \E lopage \in Pages, npages \in Pages, avail \in 0 .. MaxSlab,
          olink_ok \in BOOLEAN :
           SeqRemove(lopage, npages, avail, olink_ok)
DoSeqDestroy ==
    /\ SeqReady
    /\ SeqDestroy

SeqNext == DoSeqMap \/ DoSeqRemove \/ DoSeqDestroy

SpecSeq == SeqInit /\ [][SeqNext]_vars

----------------------------------------------------------------------------
(* Sequences of vmmap_remove on a map that holds one anonymous mapping made *)
(* by vmmap_map; last describes the latest call as in Spec.                 *)

\* what vmmap_map(map, NULL, ...) returning 0 makes of the empty map
FirstMaps ==
    {r \in {vmmap_map(<<>>, [o \in Objs |-> IF o = VnObj THEN 1 ELSE 0], 0, a,
                      [fail |-> "none", garbage |-> Junk, avail |-> 0,
                       olink_ok |-> TRUE]) :
            a \in {x \in MapArgs :
                      ~x.file /\ x.lopage + x.npages <= USER_PAGE_HIGH}} :
        r.ret = 0 /\ ~r.panic}

CutsInit ==
    /\ \E r \in FirstMaps :
           /\ vmm_list = r.list
           /\ refcount = r.refs
           /\ slab = r.slab
    /\ panicked = FALSE
    /\ last = NoCall

CutsReady == ~panicked /\ last.seq < MaxCuts

CutRemove(lopage, npages, avail, olink_ok) ==
    LET r == vmmap_remove(vmm_list, lopage, npages, refcount, slab, avail, olink_ok)
    IN  /\ CutsReady
        /\ npages >= 1 /\ lopage + npages <= USER_PAGE_HIGH
        /\ avail \in {0, MaxSlab - slab}
        /\ vmm_list' = r.list
        /\ refcount' = r.refs
        /\ slab' = r.slab
        /\ panicked' = r.panic
        /\ last' = [Call("remove", lopage, npages) EXCEPT
                        !.ret = r.ret, !.seq = last.seq + 1]

DoCutRemove ==
    /\ CutsReady
    /\ \E lopage \in Pages, npages \in Pages, avail \in 0 .. MaxSlab,
          olink_ok \in BOOLEAN :
           CutRemove(lopage, npages, avail, olink_ok)

CutsNext == DoCutRemove

SpecCuts == CutsInit /\ [][CutsNext]_vars

----------------------------------------------------------------------------
(* Properties *)

hipage_of(c) == c.lopage + c.npages
Overlaps(vma, lo, hi) == vma.vma_start < hi /\ vma.vma_end > lo
Geometry(vma) == <<vma.vma_start, vma.vma_end, vma.vma_off, vma.vma_obj>>
Returned(op) == last.op = op /\ ~panicked

\* the starts s of the runs [s, s + npages) inside the user window that no
\* vmarea of list overlaps
FreeStarts(list, npages) ==
    {s \in 0 .. USER_PAGE_HIGH :
        /\ s + npages <= USER_PAGE_HIGH
        /\ \A i \in 1 .. Len(list) : ~Overlaps(list[i], s, s + npages)}

\* C1: after a public mutation (insert, remove, map) of the map, every vmarea
\* that precedes another in the list ends at or before the start of the other.
C1_Ordering ==
    (Returned("insert") \/ Returned("remove") \/ Returned("map")) => Ordered(vmm_list)

\* C2: remove leaves start, end, off and obj of every vmarea that does not
\* overlap the range as they were; when no vmarea overlaps the range, the map
\* after the call is the map before it.
C2_RemoveFrame ==
    Returned("remove") =>
        /\ \A i \in 1 .. Len(last.pre) :
               ~Overlaps(last.pre[i], last.lopage, hipage_of(last)) =>
                   \E j \in 1 .. Len(vmm_list) :
                       Geometry(vmm_list[j]) = Geometry(last.pre[i])
        /\ (\A i \in 1 .. Len(last.pre) :
               ~Overlaps(last.pre[i], last.lopage, hipage_of(last)))
           => vmm_list = last.pre

\* C3: after remove(lopage, npages) returns 0, lookup finds no vmarea at any
\* page of [lopage, lopage + npages).
C3_RemoveClears ==
    (Returned("remove") /\ last.ret = 0) =>
        \A v \in last.lopage .. hipage_of(last) - 1 :
            vmmap_lookup(vmm_list, v) = NULL

\* C3 witness: a remove returned 0 on a range that one vmarea overlapped
\* partly and another was contained in.
C3_Witness ==
    /\ Returned("remove") /\ last.ret = 0
    /\ \E i \in 1 .. Len(last.pre) :
           /\ Overlaps(last.pre[i], last.lopage, hipage_of(last))
           /\ last.pre[i].vma_start < last.lopage
    /\ \E i \in 1 .. Len(last.pre) :
           /\ last.pre[i].vma_start >= last.lopage
           /\ last.pre[i].vma_end = hipage_of(last)

\* C4: find_range(npages, HILO) returns the highest page g such that
\* [g, g + npages) is inside the user window and overlaps no vmarea.
C4_HiloHighest ==
    (Returned("find_range") /\ last.dir = VMMAP_DIR_HILO
        /\ FreeStarts(last.pre, last.npages) # {})
    => last.ret = SetMax(FreeStarts(last.pre, last.npages))

\* C5: on an ordered map and for npages >= 1, a page g that
\* find_range(npages, LOHI) returns is the lowest page such that
\* [g, g + npages) is inside the user window and overlaps no vmarea.
C5_LohiLowest ==
    (Returned("find_range") /\ last.dir = VMMAP_DIR_LOHI /\ last.npages >= 1
        /\ Ordered(last.pre) /\ last.ret # -1)
    => /\ FreeStarts(last.pre, last.npages) # {}
       /\ last.ret = SetMin(FreeStarts(last.pre, last.npages))

\* C6: for both directions and every npages >= 1, find_range returns -1 if and
\* only if no s has [s, s + npages) inside the user window and
\* is_range_empty(s, npages) true.
C6_NotFoundIff ==
    (Returned("find_range") /\ last.npages >= 1) =>
        (last.ret = -1 <=>
            ~\E s \in 0 .. USER_PAGE_HIGH :
                /\ s + last.npages <= USER_PAGE_HIGH
                /\ vmmap_is_range_empty(last.pre, s, last.npages) = 1)

\* the pages of [s, s + n) are all unmapped
AllUnmapped(list, s, n) == \A v \in s .. s + n - 1 : vmmap_lookup(list, v) = NULL

\* C7 as claimed: for every s and n, is_range_empty(s, n) is true if and only
\* if lookup(v) is null for every v in [s, s + n).
C7_EmptyIffUnmapped_AnyCount ==
    Returned("is_range_empty") =>
        (last.ret = 1 <=> AllUnmapped(last.pre, last.lopage, last.npages))

\* C7 amended: for every s and every n >= 1, is_range_empty(s, n) is true if
\* and only if lookup(v) is null for every v in [s, s + n).
C7_EmptyIffUnmapped ==
    (Returned("is_range_empty") /\ last.npages >= 1) =>
        (last.ret = 1 <=> AllUnmapped(last.pre, last.lopage, last.npages))

\* C7 witness: is_range_empty answered 0 for a range of at least two pages
\* whose first page is unmapped.
C7_Witness ==
    /\ Returned("is_range_empty") /\ last.npages >= 2 /\ last.ret = 0
    /\ vmmap_lookup(last.pre, last.lopage) = NULL

\* C8: when map is called with lopage # 0 and returns 0, the new vmarea is in
\* the list and is the only vmarea that overlaps [lopage, lopage + npages).
C8_MapReplaces ==
    (Returned("map") /\ last.lopage # 0 /\ last.ret = 0) =>
        /\ \E j \in 1 .. Len(vmm_list) : vmm_list[j] = last.vma
        /\ \A j \in 1 .. Len(vmm_list) :
               Overlaps(vmm_list[j], last.lopage, hipage_of(last))
                   => vmm_list[j] = last.vma
        /\ Cardinality({j \in 1 .. Len(vmm_list) :
               Overlaps(vmm_list[j], last.lopage, hipage_of(last))}) = 1

\* C9: when map returns an error, the list of vmareas is what it was before
\* the call.
C9_MapErrorKeepsMap ==
    (Returned("map") /\ last.ret < 0) => vmm_list = last.pre

\* C9 witness: a map over a caller-chosen range that overlaps a vmarea failed
\* after the new vmarea had been allocated.
C9_Witness ==
    /\ Returned("map") /\ last.ret < 0 /\ last.lopage # 0
    /\ last.vma # NoVma
    /\ \E i \in 1 .. Len(last.pre) :
           Overlaps(last.pre[i], last.lopage, hipage_of(last))

\* the objects made by shadow_create: nothing in vmmap.c calls it
Shadows == {}

\* C10: after a successful map, the new vmarea's vma_obj is the object obtained
\* for it (the fresh anonymous object, or the one the vnode's mmap returned)
\* when flags lacks MAP_PRIVATE, and a shadow object over it when flags
\* contains MAP_PRIVATE.
C10_MapObject ==
    (Returned("map") /\ last.ret = 0) =>
        IF "MAP_PRIVATE" \in last.flags
        THEN last.vma.vma_obj \in Shadows /\ last.vma.vma_obj # last.base
        ELSE last.vma.vma_obj = last.base

\* C11: after a successful map the new vmarea starts at lopage (at the page
\* find_range returned when lopage = 0), ends npages later, has the requested
\* prot and flags, and its vma_off is the caller's byte offset in pages.
C11_MapFields ==
    (Returned("map") /\ last.ret = 0) =>
        /\ last.vma.vma_start =
               (IF last.lopage = 0
                THEN vmmap_find_range(last.pre, last.npages, last.dir)
                ELSE last.lopage)
        /\ last.vma.vma_end = last.vma.vma_start + last.npages
        /\ last.vma.vma_prot = last.prot
        /\ last.vma.vma_flags = last.flags
        /\ last.vma.vma_off = ADDR_TO_PN(last.off)

\* C12: after any sequence of successful anonymous map, remove and destroy
\* calls, the reference count of every anonymous object is the number of
\* vmareas of the list whose vma_obj it is.
C12_Conservation ==
    ~panicked =>
        \A o \in AnonObjs : refcount[o] = Cardinality(Holders(vmm_list, o))

\* C12 witness: a remove has left two vmareas on one object, which has two
\* references.
C12_Witness ==
    /\ ~panicked /\ last.op = "remove"
    /\ \E o \in AnonObjs : refcount[o] = 2 /\ Cardinality(Holders(vmm_list, o)) = 2

\* the fields of a vmarea other than its bounds, offset and links
Attrs(vma) == <<vma.vma_prot, vma.vma_flags, vma.vma_vmmap, vma.vma_obj>>

\* the range of the last call lies strictly inside the i-th vmarea of the map
\* the call started from and touches no other
CutsOnly(i) ==
    /\ last.pre[i].vma_start < last.lopage
    /\ hipage_of(last) < last.pre[i].vma_end
    /\ \A j \in 1 .. Len(last.pre) :
           j # i => ~Overlaps(last.pre[j], last.lopage, hipage_of(last))

\* C13: remove(lopage, npages) on a range strictly inside a single vmarea
\* V = [a, b) with offset o and object O puts in the place of V the two
\* vmareas [a, lopage) with offset o and [lopage + npages, b) with offset
\* o + (lopage + npages - a), both with V's prot, flags, owner and object, and
\* O has one reference more.
C13_InteriorCut ==
    (Returned("remove") /\ last.ret = 0) =>
        \A i \in 1 .. Len(last.pre) :
            CutsOnly(i) =>
                LET V == last.pre[i]
                    lo == vmm_list[i]
                    hi == vmm_list[i + 1]
                IN  /\ Len(vmm_list) = Len(last.pre) + 1
                    /\ lo.vma_start = V.vma_start /\ lo.vma_end = last.lopage
                    /\ lo.vma_off = V.vma_off
                    /\ hi.vma_start = hipage_of(last) /\ hi.vma_end = V.vma_end
                    /\ hi.vma_off = U32(V.vma_off + (hipage_of(last) - V.vma_start))
                    /\ Attrs(lo) = Attrs(V) /\ Attrs(hi) = Attrs(V)
                    /\ refcount[V.vma_obj] = last.pre_refs[V.vma_obj] + 1

\* C13 witness: a remove returned 0 on a range strictly inside one vmarea of a
\* map that holds another vmarea as well.
C13_Witness ==
    /\ Returned("remove") /\ last.ret = 0
    /\ Len(last.pre) >= 2
    /\ \E i \in 1 .. Len(last.pre) : CutsOnly(i)

\* the i-th vmarea of the map the last call started from strictly contains the
\* range of the call
Contains(i) ==
    /\ last.pre[i].vma_start < last.lopage
    /\ hipage_of(last) < last.pre[i].vma_end

\* C14: when remove returns -ENOSPC because the vmarea for the lower piece of
\* an interior cut could not be allocated, the vmarea V that was to be cut has
\* the start, end, off and obj it had before the call, and its object has the
\* reference count it had before the call.
C14_CutFailure ==
    (Returned("remove") /\ last.ret = -ENOSPC) =>
        \E i \in 1 .. Len(last.pre) :
            /\ Contains(i)
            /\ \E j \in 1 .. Len(vmm_list) :
                   Geometry(vmm_list[j]) = Geometry(last.pre[i])
            /\ refcount[last.pre[i].vma_obj] = last.pre_refs[last.pre[i].vma_obj]

\* start, end, off, prot and flags of a vmarea
Mirror(vma) == <<vma.vma_start, vma.vma_end, vma.vma_off, vma.vma_prot, vma.vma_flags>>

\* C15: clone returns a new map whose vmareas, in the same order, have the
\* start, end, off, prot and flags of the vmareas of the given map; a
\* MAP_SHARED vmarea of the new map has the object of its source, which has one
\* reference more, and a MAP_PRIVATE vmarea has, in the new map and in the
\* given one, a new shadow object of its own.
C15_CloneMirrors ==
    Returned("clone") =>
        /\ last.ret # NULL
        /\ Len(last.child) = Len(last.pre)
        /\ Len(vmm_list) = Len(last.pre)
        /\ \A i \in 1 .. Len(last.pre) :
               /\ Mirror(last.child[i]) = Mirror(last.pre[i])
               /\ "MAP_SHARED" \in last.pre[i].vma_flags =>
                      /\ last.child[i].vma_obj = last.pre[i].vma_obj
                      /\ refcount[last.pre[i].vma_obj]
                             = last.pre_refs[last.pre[i].vma_obj] + 1
               /\ "MAP_PRIVATE" \in last.pre[i].vma_flags =>
                      /\ last.child[i].vma_obj \in Shadows
                      /\ vmm_list[i].vma_obj \in Shadows
                      /\ last.child[i].vma_obj # vmm_list[i].vma_obj

\* the frame of page vfn: its vmarea's object and the page's index in it
FrameOf(list, vfn) ==
    LET vma == list[vmmap_lookup(list, vfn)]
    IN  [obj |-> vma.vma_obj, index |-> (vfn - vma.vma_start) + vma.vma_off]

\* C16: a write over mapped bytes that returns 0 has, for every page of the
\* interval, asked the page's object for the frame at index
\* (vfn - vma_start) + vma_off for writing and marked it dirty, and a read of
\* the same interval that follows returns the bytes written.
C16_WriteThenRead ==
    /\ (last.op \in {"write", "read"} /\ ~panicked /\ last.count >= 1) =>
           \A vfn \in PagesOf(last.vaddr, last.count) :
               LET f == FrameOf(last.pre, vfn)
               IN  /\ [obj |-> f.obj, index |-> f.index, forwrite |-> 1] \in last.looked
                   /\ f \in last.dirtied
    /\ (Returned("read") /\ last.ret = 0) => last.buf = last.data

\* start, end, off, prot, flags and obj of every vmarea of a list, in order
Regions(list) ==
    [i \in 1 .. Len(list) |->
        <<list[i].vma_start, list[i].vma_end, list[i].vma_off, list[i].vma_prot,
          list[i].vma_flags, list[i].vma_obj>>]

\* C17: on a map that is ordered and inside the user window, insert of a
\* vmarea on an interval that overlaps no vmarea, followed by remove over
\* exactly that interval, leaves the sequence of vmareas (start, end, off,
\* prot, flags, obj of each) as it was before the insert.
C17_InsertRemove ==
    (Returned("insert_remove") /\ Ordered(last.pre) /\ InBounds(last.pre)) =>
        Regions(vmm_list) = Regions(last.pre)

\* list without its k-th element
Without(list, k) == SubSeq(list, 1, k - 1) \o SubSeq(list, k + 1, Len(list))

\* C18: insert, on an ordered map and with a vmarea whose interval is not
\* empty and overlaps no vmarea of the map, links the vmarea where the list
\* stays ordered, leaves the other vmareas as they were and in their order,
\* and sets the vmarea's vma_vmmap to the map.
C18_InsertPosition ==
    (Returned("insert") /\ Ordered(last.pre)) =>
        /\ Ordered(vmm_list)
        /\ \E k \in 1 .. Len(vmm_list) :
               /\ vmm_list[k] = last.vma
               /\ vmm_list[k].vma_vmmap = "map"
               /\ Without(vmm_list, k) = last.pre

\* C18 witness: insert has linked a vmarea between two vmareas of an ordered
\* map.
C18_Witness ==
    /\ Returned("insert") /\ Ordered(last.pre)
    /\ \E k \in 2 .. Len(vmm_list) - 1 : vmm_list[k] = last.vma

\* C19: vmmap_mapping_info writes at no offset >= osize from the start of the
\* caller's buffer, whatever the map, osize >= 1 and the line lengths snprintf
\* reports, also when the table is longer than the buffer.
C19_NoOverrun ==
    Returned("mapping_info") => \A w \in last.written : w < last.osize

\* C20: when map returns an error, what it allocated during the call has been
\* given back: as many vmareas are allocated as before the call and every
\* object has the reference count it had before the call.
C20_MapErrorFrees ==
    (Returned("map") /\ last.ret < 0) =>
        /\ slab = last.pre_slab
        /\ refcount = last.pre_refs

\* the translation of page vfn: the object of the vmarea lookup finds and the
\* page's index in it, in uint32_t arithmetic
Translation(list, vfn) ==
    LET vma == list[vmmap_lookup(list, vfn)]
    IN  [obj |-> vma.vma_obj,
         index |-> U32((vfn - vma.vma_start) + vma.vma_off)]

\* C21: remove(lopage, npages) keeps the translation of the pages that
\* survive: every page that is mapped before the call and lies outside
\* [lopage, lopage + npages) is mapped after it, by a vmarea with the same
\* object and at the same page index (vfn - vma_start) + vma_off.
C21_RemoveKeepsTranslation ==
    Returned("remove") =>
        \A vfn \in 0 .. USER_PAGE_HIGH - 1 :
            (/\ vmmap_lookup(last.pre, vfn) # NULL
             /\ (vfn < last.lopage \/ vfn >= hipage_of(last)))
            => /\ vmmap_lookup(vmm_list, vfn) # NULL
               /\ Translation(vmm_list, vfn) = Translation(last.pre, vfn)

====
